---- MODULE Spec2Model ----
(***************************************************************************)
(* Model of the wait-time logger (src/src/logger.py): a thread that        *)
(* receives UDP datagrams, logs each one, and reconstructs per-badge       *)
(* journeys through the stations A, B, C, V, H.                            *)
(*                                                                         *)
(* Text is modelled as a sequence of one-character strings, so that the    *)
(* regular expression, strip() and the [:-2] slice are computed as the     *)
(* code computes them.  Time is counted in whole hours since midnight of   *)
(* day 0; a date is the day number.                                        *)
(***************************************************************************)
EXTENDS Integers, Sequences, FiniteSets, TLC

\* ---------------------------------------------------------------- bounds
MaxDatagrams == 3      \* datagrams the socket delivers in one behaviour
MaxTime == 25          \* the latest hour a datagram arrives at

\* ------------------------------------------------------ program constants
IdLen == 8             \* [\w]{8}
HoursPerDay == 24      \* datetime.date() of a time counted in hours
StartTime == HoursPerDay - 1   \* datetime.now() at construction

None == << >>          \* Python None in a text-valued field (ID)
NoTime == -1           \* Python None in a station slot

Stations == {"A", "B", "C", "V", "H"}
Letters == {"A", "B", "C", "V", "H", "n", "o", "t", "e", "x"}
Digits == {"1", "2"}
WordChars == Letters \cup Digits \cup {"_"}          \* \w on ASCII text
Whitespace == {" ", "\n"}                             \* removed by strip()
NonAscii == "\\xff"                                   \* a byte >= 0x80

Rep(c, n) == [i \in 1..n |-> c]
id1 == Rep("A", IdLen)
id2 == Rep("1", IdLen)
IDs == {id1, id2}
StationMsg(station, id) == <<station, " ">> \o id
NoteText == <<"n", "o", "t", "e", " ", "t", "e", "x", "t">>
NoteMsg == <<" ">> \o NoteText \o <<"\n">>
BadBytes == <<"A", NonAscii>>

\* The datagrams the network may deliver.
Datagrams ==
    {StationMsg("A", id1), StationMsg("B", id1), StationMsg("H", id1),
     StationMsg("A", id2), NoteMsg, BadBytes}

\* ---------------------------------------------------------- pure helpers
Date(t) == t \div HoursPerDay

\* bytes.decode('ascii'): fails on any byte outside ASCII
Decodable(data) == \A i \in 1..Len(data) : data[i] # NonAscii

\* re.match(r'([ABCVH]) ([\w]{8})$', message): anchored at the start; '$'
\* matches at the end of the text or just before one final newline.
Matches(message) ==
    /\ Len(message) >= IdLen + 2
    /\ message[1] \in Stations
    /\ message[2] = " "
    /\ \A i \in 3..(IdLen + 2) : message[i] \in WordChars
    /\ \/ Len(message) = IdLen + 2
       \/ Len(message) = IdLen + 3 /\ message[IdLen + 3] = "\n"
MatchStation(message) == message[1]
MatchId(message) == SubSeq(message, 3, IdLen + 2)

\* str.strip(): drops leading and trailing whitespace
RECURSIVE LStrip(_)
LStrip(s) == IF s # << >> /\ Head(s) \in Whitespace THEN LStrip(Tail(s)) ELSE s
RECURSIVE RStrip(_)
RStrip(s) ==
    IF s # << >> /\ s[Len(s)] \in Whitespace
    THEN RStrip(SubSeq(s, 1, Len(s) - 1)) ELSE s
Strip(s) == RStrip(LStrip(s))

\* the notes are written as they stand, separator at the end included
DropNothing(s) == s

\* s[:-2]
DropLast2(s) == SubSeq(s, 1, Len(s) - 2)

\* ------------------------------------------------- the in-progress store
\* self.ongoing is a dict in insertion order: a sequence of <<key, record>>.
Keys(og) == {og[i][1] : i \in 1..Len(og)}
IndexOf(og, id) == CHOOSE i \in 1..Len(og) : og[i][1] = id
Get(og, id) == og[IndexOf(og, id)][2]
\* the journey stays in the store
RemoveNone(og, id) == og
Remove(og, id) == SelectSeq(og, LAMBDA e : e[1] # id)

\* the default record of the defaultdict
DefaultRecord(session) ==
    [ID |-> None, Session |-> session, A |-> NoTime, B |-> NoTime,
     C |-> NoTime, V |-> NoTime, H |-> NoTime, Notes |-> << >>]

\* self.ongoing[id]: inserts the default record when id is missing
Touch(og, id, session) ==
    IF id \in Keys(og) THEN og ELSE Append(og, <<id, DefaultRecord(session)>>)

\* the first time seen at a station is kept
SetSlotKeepFirst(og, id, station, time) ==
    IF og[IndexOf(og, id)][2][station] = NoTime
    THEN [og EXCEPT ![IndexOf(og, id)][2][station] = time]
    ELSE og

\* the slot is set in every journey in progress
SetSlotOfAll(og, id, station, time) ==
    [i \in 1..Len(og) |-> <<og[i][1], [og[i][2] EXCEPT ![station] = time]>>]

\* self.ongoing[id].loc[0, station] = time
SetSlot(og, id, station, time) ==
    [og EXCEPT ![IndexOf(og, id)][2][station] = time]

\* ------------------------------------------------------------- finalize
\* tuple(curr) as a BadgeScans row: ID set to the key, Notes cut by [:-2]
Row(id, rec) ==
    [id |-> id, session |-> rec.Session, a_time |-> rec.A, b_time |-> rec.B,
     c_time |-> rec.C, v_time |-> rec.V, h_time |-> rec.H,
     notes |-> DropLast2(rec.Notes)]

Outcome(og, scans, err) == [ongoing |-> og, BadgeScans |-> scans, err |-> err]

\* without the membership test the defaultdict makes a blank record
FinalizeLazy(og, scans, id) ==
    Outcome(Remove(og, id),
            Append(scans, Row(id, IF id \in Keys(og) THEN Get(og, id)
                                  ELSE DefaultRecord(0))),
            "none")

\* the row takes the place of the row BadgeScans already has for id
FinalizeInPlace(og, scans, id) ==
    IF id \notin Keys(og)
    THEN Outcome(og, scans, "UserWarning")
    ELSE Outcome(Remove(og, id),
                 IF \E k \in 1..Len(scans) : scans[k].id = id
                 THEN [k \in 1..Len(scans) |->
                          IF scans[k].id = id THEN Row(id, Get(og, id))
                          ELSE scans[k]]
                 ELSE Append(scans, Row(id, Get(og, id))),
                 "none")

\* Logger.finalize(id)
Finalize(og, scans, id) ==
    IF id \notin Keys(og)
    THEN Outcome(og, scans, "UserWarning")
    ELSE Outcome(Remove(og, id), Append(scans, Row(id, Get(og, id))), "none")

\* Logger.dump_data(): finalize every key, in the order list(keys) gives
RECURSIVE DumpLoop(_, _, _)
DumpLoop(ids, og, scans) ==
    IF ids = << >>
    THEN Outcome(og, scans, "none")
    ELSE LET r == Finalize(og, scans, Head(ids))
         IN  IF r.err # "none" THEN r
             ELSE DumpLoop(Tail(ids), r.ongoing, r.BadgeScans)
\* only the first key is finalized
DumpDataFirstOnly(og, scans) ==
    DumpLoop(IF og = << >> THEN << >> ELSE <<og[1][1]>>, og, scans)

DumpData(og, scans) ==
    DumpLoop([i \in 1..Len(og) |-> og[i][1]], og, scans)

\* ---------------------------------------------------------- update_data
\* the note goes to the journey opened last
AddNoteLastOnly(og, message) ==
    [i \in 1..Len(og) |->
        IF i < Len(og) THEN og[i]
        ELSE <<og[i][1],
               [og[i][2] EXCEPT !.Notes = @ \o Strip(message) \o <<",", " ">>]>>]

\* the Notes branch: every in-progress record gets strip(message) + ', '
AddNote(og, message) ==
    [i \in 1..Len(og) |->
        <<og[i][1],
          [og[i][2] EXCEPT !.Notes = @ \o Strip(message) \o <<",", " ">>]>>]

\* a second A merges into the open journey
RestartNever(og, scans, station, id) == Outcome(og, scans, "none")

\* lines 294-295: a journey already open for id is finalized at station A
RestartAtA(og, scans, station, id) ==
    IF station = "A" /\ id \in Keys(og)
    THEN Finalize(og, scans, id)
    ELSE Outcome(og, scans, "none")

\* H is stored like any other station
FinishNever(og, scans, station, id) == Outcome(og, scans, "none")

\* lines 301-302: the journey is finalized at station H
FinishAtH(og, scans, station, id) ==
    IF station = "H"
    THEN Finalize(og, scans, id)
    ELSE Outcome(og, scans, "none")

\* Logger.update_data(time, message); session is self.current_session,
\* read by the default factory when a record is created
UpdateData(og, scans, session, time, message) ==
    IF ~Matches(message)
    THEN Outcome(AddNote(og, message), scans, "none")
    ELSE LET station == MatchStation(message)
             id == MatchId(message)
             first == RestartAtA(og, scans, station, id)
             set == SetSlot(Touch(first.ongoing, id, session), id, station, time)
         IN  IF first.err # "none" THEN first
             ELSE FinishAtH(set, first.BadgeScans, station, id)

\* ------------------------------------------------- session and text logs
\* f'{date:%m.%d.%y}', one token of a file name
FormatDate(d) == ToString(d)

\* Logger.get_text_log_files(): the default names, made on first use
GetTextLogFiles(files, session) ==
    IF files = None
    THEN << <<"./data/udp_log_", "ALL", ".txt">>,
            <<"./data/udp_log_", FormatDate(session), ".txt">> >>
    ELSE files

\* str.replace(old, new) on a file name
Replace(name, old, new) ==
    [i \in 1..Len(name) |-> IF name[i] = old THEN new ELSE name[i]]

\* the condition of Logger.update_session(time)
SessionChanges(time, session, lastWrite) ==
    Date(time) # session /\ time - lastWrite > 1

\* Logger.update_session(time): the new (current_session, log_files)
UpdateSession(time, session, lastWrite, files) ==
    IF SessionChanges(time, session, lastWrite)
    THEN [session |-> Date(time),
          files |-> LET fs == GetTextLogFiles(files, session)
                    IN  [i \in 1..Len(fs) |->
                            Replace(fs[i], FormatDate(session), FormatDate(Date(time)))]]
    ELSE [session |-> session, files |-> files]

\* Logger.log_to_text_files(time, message): one line per file
TextLines(files, time, message) ==
    [i \in 1..Len(files) |-> [file |-> files[i], time |-> time, message |-> message]]

\* only station observations are logged
LogToDatabaseMatchedOnly(logs, time, session, message) ==
    IF Matches(message)
    THEN Append(logs, [time |-> time, session |-> session, message |-> message])
    ELSE logs

\* Logger.log_to_database(time, message): one row inserted into Logs
LogToDatabase(logs, time, session, message) ==
    Append(logs, [time |-> time, session |-> session, message |-> message])

\* ------------------------------------------------------------------ state
VARIABLES
    auto_save,        \* constructor option
    udp_socket,       \* self.udp_socket: "None", "open" or "closed"
    bounded,          \* the socket has a receive timeout
    listening,        \* self.listening
    stop_event,       \* self._stop_event: "None", "clear" or "set"
    pc,               \* where the thread is in run()
    now,              \* the wall clock when it was last read, in hours
    last_write,       \* self.last_write
    current_session,  \* self.current_session
    log_files,        \* self.log_files
    textLog,          \* the lines appended to the text log files
    Logs,             \* table Logs
    BadgeScans,       \* table BadgeScans
    ongoing,          \* self.ongoing
    received,         \* history: the datagrams recvfrom has returned
    stopRequested,    \* history: stop() has been called after start()
    openAtStop,       \* history: self.ongoing when the receive cycle was left
    raised            \* the exception the last direct call raised

vars == <<auto_save, udp_socket, bounded, listening, stop_event, pc,
          now, last_write, current_session, log_files, textLog, Logs,
          BadgeScans, ongoing, received, stopRequested, openAtStop, raised>>

config == <<auto_save>>
store == <<ongoing, BadgeScans>>
sink == <<textLog, Logs, log_files, current_session>>
history == <<received, stopRequested, openAtStop, raised>>

\* Logger.__init__.  The udp_socket argument is None (no socket yet), a
\* (host, port) pair (bound at once by create_udp_socket, which sets the
\* timeout) or a socket object, kept as the caller made it: with a timeout
\* or, as socket.socket() makes it, without one.
Init ==
    /\ auto_save \in BOOLEAN
    /\ udp_socket \in {"None", "open"}
    /\ bounded \in IF udp_socket = "None" THEN {FALSE} ELSE BOOLEAN
    /\ listening = FALSE
    /\ stop_event = "None"
    /\ pc = "new"
    /\ now = StartTime
    /\ last_write = StartTime
    /\ current_session = Date(StartTime)
    /\ log_files = None
    /\ textLog = << >>
    /\ Logs = << >>
    /\ BadgeScans = << >>
    /\ ongoing = << >>
    /\ received = << >>
    /\ stopRequested = FALSE
    /\ openAtStop = << >>
    /\ raised = "none"

\* ------------------------------------------- the controlling context
\* Thread.start(): run() begins on the thread
Start ==
    /\ pc = "new"
    /\ pc' = "run"
    /\ UNCHANGED <<config, udp_socket, bounded, listening, stop_event, now,
                   last_write, store, sink, history>>

\* Logger.stop()
Stop ==
    /\ pc # "new"
    /\ stopRequested' = TRUE
    /\ stop_event' = IF listening THEN "set" ELSE stop_event
    /\ UNCHANGED <<config, udp_socket, bounded, listening, pc, now, last_write,
                   store, sink, received, openAtStop, raised>>

\* a direct call of Logger.finalize(id), while the thread is not running
FinalizeCall(id) ==
    /\ pc \in {"new", "done", "dead"}
    /\ LET r == Finalize(ongoing, BadgeScans, id)
       IN  /\ ongoing' = r.ongoing
           /\ BadgeScans' = r.BadgeScans
           /\ raised' = r.err
    /\ UNCHANGED <<config, udp_socket, bounded, listening, stop_event, pc, now,
                   last_write, sink, received, stopRequested, openAtStop>>

\* ------------------------------------------------------- the thread: run()
\* lines 83-90: the listening check and the default socket
RunEnter ==
    /\ pc = "run"
    /\ IF listening
       THEN pc' = "done" /\ UNCHANGED <<udp_socket, bounded>>
       ELSE /\ pc' = "event"
            /\ udp_socket' = IF udp_socket = "None" THEN "open" ELSE udp_socket
            /\ bounded' = IF udp_socket = "None" THEN TRUE ELSE bounded
    /\ UNCHANGED <<config, listening, stop_event, now, last_write, store, sink,
                   history>>

\* line 92: self._stop_event = threading.Event()
RunCreateEvent ==
    /\ pc = "event"
    /\ stop_event' = "clear"
    /\ pc' = "listening"
    /\ UNCHANGED <<config, udp_socket, bounded, listening, now, last_write,
                   store, sink, history>>

\* line 93: self.listening = True
RunSetListening ==
    /\ pc = "listening"
    /\ listening' = TRUE
    /\ pc' = "loop"
    /\ UNCHANGED <<config, udp_socket, bounded, stop_event, now, last_write,
                   store, sink, history>>

\* line 94: while not self._stop_event.is_set()
LoopTest ==
    /\ pc = "loop"
    /\ IF stop_event = "set"
       THEN pc' = "close" /\ openAtStop' = ongoing
       ELSE pc' = "recv" /\ UNCHANGED openAtStop
    /\ UNCHANGED <<config, udp_socket, bounded, listening, stop_event, now,
                   last_write, store, sink, received, stopRequested, raised>>

\* lines 96-104 for a datagram that decodes: one pass of the pipeline
Process(data, time) ==
    LET s == UpdateSession(time, current_session, last_write, log_files)
        files == GetTextLogFiles(s.files, s.session)
        r == UpdateData(ongoing, BadgeScans, s.session, time, data)
    IN  /\ current_session' = s.session
        /\ log_files' = files
        /\ textLog' = textLog \o TextLines(files, time, data)
        /\ Logs' = LogToDatabase(Logs, time, s.session, data)
        /\ ongoing' = r.ongoing
        /\ BadgeScans' = r.BadgeScans
        /\ pc' = "loop"

\* lines 108-109: 'raise e.with_traceback()' itself raises TypeError, which
\* leaves run(); the thread ends where it stands
Fatal ==
    /\ pc' = "dead"
    /\ UNCHANGED <<store, sink>>

\* line 96 returns a datagram; line 98 reads the clock, which has not gone
\* back since it was last read
RecvDatagram(data, time) ==
    /\ pc = "recv"
    /\ Len(received) < MaxDatagrams
    /\ received' = Append(received, data)
    /\ IF Decodable(data)
       THEN now' = time /\ Process(data, time)
       ELSE now' = now /\ Fatal
    /\ UNCHANGED <<config, udp_socket, bounded, listening, stop_event,
                   last_write, stopRequested, openAtStop, raised>>

\* line 96 times out: TimeoutError, caught at line 105
RecvTimeout ==
    /\ pc = "recv"
    /\ bounded
    /\ pc' = "loop"
    /\ UNCHANGED <<config, udp_socket, bounded, listening, stop_event, now,
                   last_write, store, sink, history>>

\* lines 113-116: close_udp() and, with auto_save, dump_data()
RunTeardown ==
    /\ pc = "close"
    /\ udp_socket' = "closed"
    /\ LET r == IF auto_save THEN DumpData(ongoing, BadgeScans)
                ELSE Outcome(ongoing, BadgeScans, "none")
       IN  /\ ongoing' = r.ongoing
           /\ BadgeScans' = r.BadgeScans
           /\ pc' = IF r.err = "none" THEN "idle" ELSE "dead"
    /\ UNCHANGED <<config, bounded, listening, stop_event, now, last_write,
                   sink, history>>

\* line 118: self.listening = False
RunSetIdle ==
    /\ pc = "idle"
    /\ listening' = FALSE
    /\ pc' = "done"
    /\ UNCHANGED <<config, udp_socket, bounded, stop_event, now, last_write,
                   store, sink, history>>

ThreadStep ==
    \/ RunEnter \/ RunCreateEvent \/ RunSetListening \/ LoopTest
    \/ RecvTimeout \/ RunTeardown \/ RunSetIdle

Next ==
    \/ Start
    \/ Stop
    \/ \E id \in IDs : FinalizeCall(id)
    \/ ThreadStep
    \/ \E data \in Datagrams, time \in now..MaxTime : RecvDatagram(data, time)

Spec == Init /\ [][Next]_vars

\* ================================================= calls from outside the loop
\* A second specification: the same thread, driven by a caller that also
\* calls start() again, run() and receive(), on a machine whose clock may be
\* set back, and by senders whose payloads are almost station messages.

\* line 14 and main.py line 7: Logger is a threading.Thread, and a thread
\* that was started once refuses start() with RuntimeError before run()
\* and its listening check (line 83) are reached
StartAgain ==
    /\ pc # "new"
    /\ raised' = "RuntimeError"
    /\ UNCHANGED <<config, udp_socket, bounded, listening, stop_event, pc, now,
                   last_write, store, sink, received, stopRequested,
                   openAtStop>>

\* lines 83-85: run() called on a Logger that is listening prints and returns
RunCall ==
    /\ listening
    /\ raised' = "none"
    /\ UNCHANGED <<config, udp_socket, bounded, listening, stop_event, pc, now,
                   last_write, store, sink, received, stopRequested,
                   openAtStop>>

\* lines 304-315: receive(message) reads the clock and calls
\* self.log_message, which neither Logger nor Thread defines: AttributeError
\* at line 314, and line 315 (update_data) is not reached
ReceiveCall(message) ==
    /\ raised' = "AttributeError"
    /\ UNCHANGED <<config, udp_socket, bounded, listening, stop_event, pc, now,
                   last_write, store, sink, received, stopRequested,
                   openAtStop>>

\* a badge id with a character that is not a letter or a digit
idUnderscore == Rep("A", 4) \o <<"_">> \o Rep("A", IdLen - 5)

\* payloads that are, or nearly are, station messages
ApiDatagrams ==
    {StationMsg("A", id1), StationMsg("A", id1) \o <<"\n">>,
     StationMsg("A", idUnderscore), <<" ">> \o StationMsg("A", id1)}

\* the hours at which line 98 may read the clock: around the first and the
\* second midnight after construction, in any order
ApiTimes ==
    {StartTime, StartTime + 2, 2 * HoursPerDay - 1, 2 * HoursPerDay}

\* main.py line 7: Logger(udp_socket=('localhost', 50001))
InitMain ==
    /\ Init
    /\ auto_save
    /\ udp_socket = "open"
    /\ bounded

NextApi ==
    \/ Start
    \/ Stop
    \/ StartAgain
    \/ RunCall
    \/ \E message \in ApiDatagrams : ReceiveCall(message)
    \/ ThreadStep
    \/ \E data \in ApiDatagrams, time \in ApiTimes : RecvDatagram(data, time)

SpecApi == InitMain /\ [][NextApi]_vars

\* the program as main.py runs it: the receive loop of Spec on the Logger
\* that main.py constructs
SpecMain == InitMain /\ [][Next]_vars

\* ===================================================== the pipeline by call
\* A third specification: lines 101-104 taken one call at a time, so that
\* what one call has done when the next begins can be looked at.

\* an order that applies the message to the journeys before it is logged
PipelineDataFirst ==
    <<"update_session", "update_data", "log_to_text_files", "log_to_database">>

\* lines 101-104, in the order they are written
Pipeline ==
    <<"update_session", "log_to_text_files", "log_to_database", "update_data">>

\* where run() goes when a call of the pipeline returns
CallAfter(call) ==
    LET i == CHOOSE k \in 1..Len(Pipeline) : Pipeline[k] = call
    IN  IF i = Len(Pipeline) THEN "loop" ELSE Pipeline[i + 1]

\* the message and the time that lines 97-98 hold while the pipeline runs
current_message == received[Len(received)]

\* lines 96-98: recvfrom, decode, datetime.now()
StepRecv(data, time) ==
    /\ pc = "recv"
    /\ Len(received) < MaxDatagrams
    /\ received' = Append(received, data)
    /\ IF Decodable(data)
       THEN now' = time /\ pc' = Pipeline[1]
       ELSE now' = now /\ pc' = "dead"
    /\ UNCHANGED <<config, udp_socket, bounded, listening, stop_event,
                   last_write, store, sink, stopRequested, openAtStop, raised>>

\* line 101: self.update_session(time)
StepUpdateSession ==
    /\ pc = "update_session"
    /\ LET s == UpdateSession(now, current_session, last_write, log_files)
       IN  current_session' = s.session /\ log_files' = s.files
    /\ pc' = CallAfter("update_session")
    /\ UNCHANGED <<config, udp_socket, bounded, listening, stop_event, now,
                   last_write, store, textLog, Logs, history>>

\* line 102: self.log_to_text_files(time, message)
StepLogToTextFiles ==
    /\ pc = "log_to_text_files"
    /\ LET files == GetTextLogFiles(log_files, current_session)
       IN  /\ log_files' = files
           /\ textLog' = textLog \o TextLines(files, now, current_message)
    /\ pc' = CallAfter("log_to_text_files")
    /\ UNCHANGED <<config, udp_socket, bounded, listening, stop_event, now,
                   last_write, store, Logs, current_session, history>>

\* line 103: self.log_to_database(time, message)
StepLogToDatabase ==
    /\ pc = "log_to_database"
    /\ Logs' = LogToDatabase(Logs, now, current_session, current_message)
    /\ pc' = CallAfter("log_to_database")
    /\ UNCHANGED <<config, udp_socket, bounded, listening, stop_event, now,
                   last_write, store, textLog, log_files, current_session,
                   history>>

\* line 104: self.update_data(time, message)
StepUpdateData ==
    /\ pc = "update_data"
    /\ LET r == UpdateData(ongoing, BadgeScans, current_session, now,
                           current_message)
       IN  ongoing' = r.ongoing /\ BadgeScans' = r.BadgeScans
    /\ pc' = CallAfter("update_data")
    /\ UNCHANGED <<config, udp_socket, bounded, listening, stop_event, now,
                   last_write, sink, history>>

NextSteps ==
    \/ Start
    \/ Stop
    \/ ThreadStep
    \/ \E data \in Datagrams, time \in now..MaxTime : StepRecv(data, time)
    \/ StepUpdateSession
    \/ StepLogToTextFiles
    \/ StepLogToDatabase
    \/ StepUpdateData

SpecSteps == InitMain /\ [][NextSteps]_vars

\* ================================================== a store that may refuse
\* A fourth specification: the loop of SpecMain with a database that may
\* refuse the INSERT of finalize (locked, disk full): c.execute at line 363
\* raises sqlite3.OperationalError.

\* Logger.finalize(id) when line 363 raises: line 359 has deleted the record
FinalizeWriteFails(og, scans, id) ==
    IF id \notin Keys(og)
    THEN Outcome(og, scans, "UserWarning")
    ELSE Outcome(Remove(og, id), scans, "OperationalError")

\* update_data calls finalize for this message: lines 294-295 or 301-302
CallsFinalize(og, data) ==
    /\ Matches(data)
    /\ \/ MatchStation(data) = "A" /\ MatchId(data) \in Keys(og)
       \/ MatchStation(data) = "H"

\* Logger.update_data(time, message) when the INSERT of the first finalize
\* it calls is refused: at line 295 the slot has not been set yet, at line
\* 302 it has
UpdateDataWriteFails(og, scans, session, time, data) ==
    LET station == MatchStation(data)
        id == MatchId(data)
    IN  IF station = "A" /\ id \in Keys(og)
        THEN FinalizeWriteFails(og, scans, id)
        ELSE FinalizeWriteFails(
                 SetSlot(Touch(og, id, session), id, station, time), scans, id)

\* lines 96-104 and 108-109 for a datagram whose journey the store refuses:
\* the raw event is logged, update_data raises, and the handler's own
\* TypeError ends the thread
RecvDatagramWriteFails(data, time) ==
    /\ pc = "recv"
    /\ Len(received) < MaxDatagrams
    /\ Decodable(data)
    /\ CallsFinalize(ongoing, data)
    /\ received' = Append(received, data)
    /\ now' = time
    /\ LET s == UpdateSession(time, current_session, last_write, log_files)
           files == GetTextLogFiles(s.files, s.session)
           r == UpdateDataWriteFails(ongoing, BadgeScans, s.session, time, data)
       IN  /\ current_session' = s.session
           /\ log_files' = files
           /\ textLog' = textLog \o TextLines(files, time, data)
           /\ Logs' = LogToDatabase(Logs, time, s.session, data)
           /\ ongoing' = r.ongoing
           /\ BadgeScans' = r.BadgeScans
    /\ pc' = "dead"
    /\ UNCHANGED <<config, udp_socket, bounded, listening, stop_event,
                   last_write, stopRequested, openAtStop, raised>>

\* Logger.dump_data() when the INSERT for the k-th key is refused: the keys
\* before it are written, the k-th record is deleted, the rest stay
DumpDataWriteFails(og, scans, k) ==
    LET ids == [i \in 1..Len(og) |-> og[i][1]]
        done == DumpLoop(SubSeq(ids, 1, k - 1), og, scans)
    IN  FinalizeWriteFails(done.ongoing, done.BadgeScans, ids[k])

\* lines 113-116 when dump_data raises: run() is left before line 118
RunTeardownWriteFails(k) ==
    /\ pc = "close"
    /\ auto_save
    /\ k \in 1..Len(ongoing)
    /\ udp_socket' = "closed"
    /\ LET r == DumpDataWriteFails(ongoing, BadgeScans, k)
       IN  ongoing' = r.ongoing /\ BadgeScans' = r.BadgeScans
    /\ pc' = "dead"
    /\ UNCHANGED <<config, bounded, listening, stop_event, now, last_write,
                   sink, history>>

NextFaulty ==
    \/ Start
    \/ Stop
    \/ ThreadStep
    \/ \E data \in Datagrams, time \in now..MaxTime : RecvDatagram(data, time)
    \/ \E data \in Datagrams, time \in now..MaxTime :
          RecvDatagramWriteFails(data, time)
    \/ \E k \in 1..MaxDatagrams : RunTeardownWriteFails(k)

SpecFaulty == InitMain /\ [][NextFaulty]_vars

\* ================================================================ claims
\* a step of the receive loop that took the datagram data off the socket
Took(data) ==
    /\ Len(received') = Len(received) + 1
    /\ received'[Len(received')] = data

Separator == <<",", " ">>

\* text is notes without the separator that ends it
WithoutSeparator(text, notes) ==
    IF notes = << >> THEN text = << >> ELSE text \o Separator = notes

\* the completed journey that the in-progress record rec of id becomes
IsRowOf(row, id, rec) ==
    /\ row.id = id /\ row.session = rec.Session
    /\ row.a_time = rec.A /\ row.b_time = rec.B /\ row.c_time = rec.C
    /\ row.v_time = rec.V /\ row.h_time = rec.H
    /\ WithoutSeparator(row.notes, rec.Notes)

\* ---------------------------------------------------------------------- C1
\* C1 as stated: at any moment the Logs table holds one row per datagram
\* received so far, in order, each with the datagram's payload.
C1_OneRawEventPerDatagram ==
    /\ Len(Logs) = Len(received)
    /\ \A i \in 1..Len(Logs) : Logs[i].message = received[i]

\* C1 as amended: the Logs table holds one row per received datagram that
\* decodes as ASCII, in order of arrival, each with the literal payload,
\* whether or not the payload is a station observation; a datagram that does
\* not decode leaves no row.
C1_OneRawEventPerDecodedDatagram ==
    LET decoded == SelectSeq(received, Decodable)
    IN  /\ Len(Logs) = Len(decoded)
        /\ \A i \in 1..Len(Logs) : Logs[i].message = decoded[i]

C1_Witness ==
    /\ Len(Logs) = MaxDatagrams
    /\ \E i \in 1..Len(Logs) : Logs[i].message = NoteMsg
    /\ \E i \in 1..Len(Logs) : Logs[i].message = StationMsg("B", id1)

\* ---------------------------------------------------------------------- C2
\* C2: when "A id" is processed while id has a journey in progress, that
\* journey is written as a completed journey with the slots and notes it
\* had, and id's journey is now a fresh one that holds the new A time only;
\* rows already written never change, and a journey that leaves the
\* in-progress store becomes a row of its own.
C2_RestartFinalizesPrior ==
    [][\A id \in IDs :
        /\ (Took(StationMsg("A", id)) /\ id \in Keys(ongoing)) =>
              /\ Len(BadgeScans') = Len(BadgeScans) + 1
              /\ IsRowOf(BadgeScans'[Len(BadgeScans')], id, Get(ongoing, id))
              /\ id \in Keys(ongoing')
              /\ Get(ongoing', id) =
                    [ID |-> None, Session |-> current_session', A |-> now',
                     B |-> NoTime, C |-> NoTime, V |-> NoTime, H |-> NoTime,
                     Notes |-> << >>]
        /\ SubSeq(BadgeScans', 1, Len(BadgeScans)) = BadgeScans
        /\ (id \in Keys(ongoing) /\ id \notin Keys(ongoing')) =>
              \E k \in (Len(BadgeScans) + 1)..Len(BadgeScans') :
                  BadgeScans'[k].id = id /\ BadgeScans'[k].a_time = Get(ongoing, id).A
      ]_vars

\* the restarted journey has been completed too: two rows for one badge,
\* the first with A only
C2_Witness ==
    \E i, j \in 1..Len(BadgeScans) :
        /\ i < j
        /\ BadgeScans[i].id = BadgeScans[j].id
        /\ BadgeScans[i].a_time # NoTime /\ BadgeScans[i].h_time = NoTime
        /\ BadgeScans[i].b_time = NoTime
        /\ BadgeScans[j].a_time # NoTime
        /\ BadgeScans[j].a_time # BadgeScans[i].a_time

\* ---------------------------------------------------------------------- C3
\* C3: processing "H id" leaves id with no journey in progress and appends
\* exactly one completed journey for id: the slots and notes filled so far
\* (none when H is the first sighting of id) and the H time; after the
\* input A, H there is one row, with A and H set, B, C, V unset, no notes.
C3_HFinalizesAtOnce ==
    [][\A id \in IDs :
        /\ Took(StationMsg("H", id)) =>
              LET before == IF id \in Keys(ongoing) THEN Get(ongoing, id)
                            ELSE [ID |-> None, Session |-> current_session',
                                  A |-> NoTime, B |-> NoTime, C |-> NoTime,
                                  V |-> NoTime, H |-> NoTime, Notes |-> << >>]
              IN  /\ id \notin Keys(ongoing')
                  /\ Len(BadgeScans') = Len(BadgeScans) + 1
                  /\ IsRowOf(BadgeScans'[Len(BadgeScans')], id,
                             [before EXCEPT !.H = now'])
        /\ received' = <<StationMsg("A", id), StationMsg("H", id)>> =>
              /\ Len(BadgeScans') = 1
              /\ BadgeScans'[1].id = id
              /\ BadgeScans'[1].a_time = Logs'[1].time
              /\ BadgeScans'[1].h_time = Logs'[2].time
              /\ BadgeScans'[1].b_time = NoTime /\ BadgeScans'[1].c_time = NoTime
              /\ BadgeScans'[1].v_time = NoTime /\ BadgeScans'[1].notes = << >>
      ]_vars

\* H as the first sighting of a badge, after another journey was opened
C3_Witness ==
    /\ Len(received) = 2
    /\ received[2] = StationMsg("H", id1)
    /\ received[1] = StationMsg("A", id2)
    /\ Len(BadgeScans) = 1 /\ BadgeScans[1].a_time = NoTime
    /\ Keys(ongoing) = {id2}

\* ---------------------------------------------------------------------- C4
\* the time of the last "station id" among rows lo..hi of logs, if any
LastTime(logs, lo, hi, station, id) ==
    LET sent == {j \in lo..hi : logs[j].message = StationMsg(station, id)}
    IN  IF sent = {} THEN NoTime
        ELSE logs[CHOOSE j \in sent : \A k \in sent : k <= j].time

\* the row of logs at which the journey of id that is open at row n began:
\* after the last earlier H for id, and not before the last A for id
JourneyStart(logs, n, id) ==
    LET starts == {1}
                  \cup {j + 1 : j \in {k \in 1..(n - 1) :
                                        logs[k].message = StationMsg("H", id)}}
                  \cup {j \in 1..n : logs[j].message = StationMsg("A", id)}
    IN  CHOOSE j \in starts : \A k \in starts : k <= j

\* the completed journey written by "H id", in the sequences that case(id)
\* selects, holds for each station the last time sent for it among rows
\* lo.. of the log
HRowHoldsLastSentFrom(lo(_, _, _), case(_)) ==
    \A id \in IDs :
        (Took(StationMsg("H", id)) /\ case(id)) =>
            LET n == Len(Logs')
                row == BadgeScans'[Len(BadgeScans')]
                from == lo(Logs', n, id)
            IN  /\ row.id = id
                /\ row.h_time = Logs'[n].time /\ row.h_time # NoTime
                /\ row.a_time = LastTime(Logs', from, n, "A", id)
                /\ row.b_time = LastTime(Logs', from, n, "B", id)
                /\ row.c_time = LastTime(Logs', from, n, "C", id)
                /\ row.v_time = LastTime(Logs', from, n, "V", id)

WholeSequence(logs, n, id) == 1
FirstH(id) == \A j \in 1..Len(Logs) : Logs[j].message # StationMsg("H", id)
AnySequence(id) == TRUE

\* C4 as stated, read for the sequences in which H comes last and nowhere
\* else: the completed journey written by that H has H set, A set if an A
\* was sent, and in every other slot the last time sent for that station in
\* the sequence.
C4_HRowHoldsLastSent == [][HRowHoldsLastSentFrom(WholeSequence, FirstH)]_vars

\* C4 as amended: the completed journey written by the final H has H set and
\* in every other slot (A included) the last time sent for that station
\* since this journey was opened, that is after the last earlier H for the
\* badge and from its last A on; a slot not sent since then is unset.
C4_HRowHoldsLastSentOfJourney ==
    [][HRowHoldsLastSentFrom(JourneyStart, AnySequence)]_vars

\* B sent twice at different times, then H: the row has the second B time
C4_Witness ==
    /\ Len(Logs) = 3 /\ Len(BadgeScans) = 1
    /\ Logs[1].message = StationMsg("B", id1)
    /\ Logs[2].message = StationMsg("B", id1)
    /\ Logs[3].message = StationMsg("H", id1)
    /\ Logs[1].time < Logs[2].time
    /\ BadgeScans[1].b_time = Logs[2].time

\* ---------------------------------------------------------------------- C5
\* C5: processing a message that is no station observation appends its
\* trimmed text to the notes of every journey in progress, however many
\* there are, and changes nothing else of the journeys: the same badges are
\* in progress with the same slots, and no completed journey is written.
C5_NoteGoesToEveryOpenJourney ==
    [][Took(NoteMsg) =>
          /\ BadgeScans' = BadgeScans
          /\ Len(ongoing') = Len(ongoing)
          /\ \A i \in 1..Len(ongoing) :
                /\ ongoing'[i][1] = ongoing[i][1]
                /\ ongoing'[i][2] =
                      [ongoing[i][2] EXCEPT !.Notes = @ \o NoteText \o Separator]
      ]_vars

C5_Witness ==
    /\ Len(ongoing) = 2
    /\ received[Len(received)] = NoteMsg
    /\ \A i \in 1..2 : ongoing[i][2].Notes = NoteText \o Separator

\* ---------------------------------------------------------------------- C6
\* C6: finalize(id) for a badge with no journey in progress raises the
\* UserWarning and leaves the in-progress store and the completed journeys
\* as they were.
C6_FinalizeUnknownFails ==
    [][\A id \in IDs :
          (FinalizeCall(id) /\ id \notin Keys(ongoing)) =>
              /\ raised' = "UserWarning"
              /\ ongoing' = ongoing
              /\ BadgeScans' = BadgeScans
      ]_vars

\* it failed while another badge had a journey in progress
C6_Witness ==
    /\ raised = "UserWarning"
    /\ Len(ongoing) = 1
    /\ BadgeScans = << >>

\* ---------------------------------------------------------------------- C7
\* C7: with auto_save, once the loop has been stopped and before listening
\* becomes false, every journey that was in progress when the receive cycle
\* was left has been written as a completed journey, in order, and none is
\* in progress.
C7_StopDrainsAll ==
    (auto_save /\ pc \in {"idle", "done"}) =>
        /\ ongoing = << >>
        /\ pc = "idle" => listening
        /\ Len(BadgeScans) >= Len(openAtStop)
        /\ \A k \in 1..Len(openAtStop) :
              IsRowOf(BadgeScans[Len(BadgeScans) - Len(openAtStop) + k],
                      openAtStop[k][1], openAtStop[k][2])

C7_Witness ==
    /\ auto_save /\ pc = "done" /\ ~listening
    /\ Len(openAtStop) = 2
    /\ Len(BadgeScans) = 2

\* ---------------------------------------------------------------------- C8
\* C8: once run() has ended after a datagram that could not be decoded, the
\* stop event is set, the socket is closed, listening is false and, with
\* auto_save, no journey is left in progress.
C8_FatalErrorStopsLoop ==
    (/\ pc \in {"done", "dead"}
     /\ received # << >>
     /\ ~Decodable(received[Len(received)])) =>
        /\ stop_event = "set"
        /\ udp_socket = "closed"
        /\ ~listening
        /\ auto_save => ongoing = << >>

\* ---------------------------------------------------------------------- C9
\* C9: when stop() has set the stop event while the loop is listening and the
\* thread waits in recvfrom, the thread can go on without a datagram (the
\* wait times out), whoever made the socket.
C9_StopObservedWithoutTraffic ==
    (listening /\ stop_event = "set" /\ pc = "recv") => ENABLED ThreadStep

\* --------------------------------------------------------------------- C10
\* C10: a stop() called at any time after start() is observed: the stop
\* event is set, unless run() has already returned.
C10_StopRequestObserved ==
    stopRequested => (stop_event = "set" \/ pc = "done")

\* --------------------------------------------------------------------- C11
\* C11: start() called while the loop is listening (through Thread.start()
\* or as run() itself), and stop() called while it is idle, raise no error
\* and change nothing: the listening flag, the position of the loop, the
\* stop signal, the journeys in progress and everything written stay as
\* they were.
C11_WrongStateCallsAreNoOps ==
    [][/\ (listening /\ (StartAgain \/ RunCall)) =>
              /\ raised' = "none"
              /\ UNCHANGED <<listening, pc, stop_event, store, sink>>
       /\ (~listening /\ Stop) =>
              /\ raised' = raised
              /\ UNCHANGED <<listening, pc, stop_event, store, sink>>]_vars

\* --------------------------------------------------------------------- C12
\* C12: update_session(time) makes the date of time the current session
\* exactly when that date is not the current session and one hour or more
\* has gone by since the previous call of update_session (since
\* construction, for the first call); in every other case the session and
\* the names of the text log files stay as they are.
C12_SessionAdvancesAfterAnHour ==
    [][\A data \in ApiDatagrams : Took(data) =>
          IF Date(now') # current_session /\ now' - now >= 1
          THEN current_session' = Date(now')
          ELSE /\ current_session' = current_session
               /\ log_files' = GetTextLogFiles(log_files, current_session)]_vars

\* --------------------------------------------------------------------- C13
\* C13: every call of update_session(time) leaves last_write = time, so
\* that once a datagram has gone through the pipeline last_write is the
\* time of the most recent one, not the time of construction.
C13_LastWriteFollowsCalls ==
    Logs # << >> => last_write = Logs[Len(Logs)].time

\* --------------------------------------------------------------------- C14
\* the whole text is a station letter, one space and IdLen letters or digits
IsStationText(message) ==
    /\ Len(message) = IdLen + 2
    /\ message[1] \in Stations
    /\ message[2] = " "
    /\ \A i \in 3..Len(message) : message[i] \in Letters \cup Digits

\* C14: a decoded payload is handled as a station observation exactly when
\* the whole of it is a station letter, one space and 8 letters or digits.
\* Any other payload (one more character before or after, a newline at the
\* end, an underscore in the id) is handled as a note: it opens no journey,
\* completes none, and is added to the notes of the journeys in progress.
C14_OnlyExactStationTextIsObserved ==
    [][\A data \in ApiDatagrams : Took(data) =>
          IF IsStationText(data)
          THEN /\ MatchId(data) \in Keys(ongoing')
               /\ Get(ongoing', MatchId(data))[MatchStation(data)] = now'
          ELSE /\ ongoing' = AddNote(ongoing, data)
               /\ BadgeScans' = BadgeScans]_vars

\* --------------------------------------------------------------------- C15
\* C15: receive(message) raises nothing, adds the message to the raw text
\* log (one line in each log file, holding the payload), and leaves the
\* journeys in progress and the completed journeys as update_data would
\* leave them for a datagram with that payload.
C15_ReceiveLogsAndApplies ==
    [][\A message \in ApiDatagrams : ReceiveCall(message) =>
          /\ raised' = "none"
          /\ Len(textLog') > Len(textLog)
          /\ \A i \in (Len(textLog) + 1)..Len(textLog') :
                textLog'[i].message = message
          /\ \E time \in ApiTimes :
                LET r == UpdateData(ongoing, BadgeScans, current_session,
                                    time, message)
                IN  ongoing' = r.ongoing /\ BadgeScans' = r.BadgeScans]_vars

\* --------------------------------------------------------------------- C16
\* the journeys of all badges but id are the same in og2 as in og1
OthersUntouched(og1, og2, id) ==
    /\ Keys(og2) \ {id} = Keys(og1) \ {id}
    /\ \A other \in Keys(og1) \ {id} : Get(og2, other) = Get(og1, other)

\* C16: a station message for id that is not an A for a journey in progress
\* opens id's journey if there is none and sets the slot of that station,
\* and nothing else of the journey, to the time of the message, whatever
\* the slot held; the journeys of the other badges are as they were.  At H
\* the journey so changed is the row that is written.
C16_ObservationSetsOneSlot ==
    [][\A station \in Stations, id \in IDs :
        (Took(StationMsg(station, id))
            /\ ~(station = "A" /\ id \in Keys(ongoing))) =>
            LET before == IF id \in Keys(ongoing) THEN Get(ongoing, id)
                          ELSE DefaultRecord(current_session')
                after == [before EXCEPT ![station] = now']
            IN  /\ OthersUntouched(ongoing, ongoing', id)
                /\ IF station = "H"
                   THEN /\ id \notin Keys(ongoing')
                        /\ Len(BadgeScans') = Len(BadgeScans) + 1
                        /\ IsRowOf(BadgeScans'[Len(BadgeScans')], id, after)
                   ELSE /\ id \in Keys(ongoing')
                        /\ Get(ongoing', id) = after
                        /\ BadgeScans' = BadgeScans]_vars

\* B was seen twice for id1, the later time is in the slot, and id2 has a
\* journey of its own
C16_Witness ==
    /\ {id1, id2} \subseteq Keys(ongoing)
    /\ \E i, j \in 1..Len(Logs) :
          /\ Logs[i].message = StationMsg("B", id1)
          /\ Logs[j].message = StationMsg("B", id1)
          /\ Logs[i].time < Logs[j].time
          /\ Get(ongoing, id1).B = Logs[j].time
          /\ Get(ongoing, id1).A = NoTime

\* --------------------------------------------------------------------- C17
\* the station of the last station message for id in logs, None if none
LastStationOf(logs, id) ==
    LET seen == {j \in 1..Len(logs) :
                    Matches(logs[j].message) /\ MatchId(logs[j].message) = id}
    IN  IF seen = {} THEN None
        ELSE MatchStation(logs[CHOOSE j \in seen : \A k \in seen : k <= j].message)

\* the rows for id among those a step appends to BadgeScans
RowsWrittenFor(id) ==
    {k \in (Len(BadgeScans) + 1)..Len(BadgeScans') : BadgeScans'[k].id = id}

\* C17: there is at most one journey in progress per badge id.  A journey
\* appears only when a station message for its id is processed, and is then
\* blank but for that station's slot, with no notes and the session of that
\* moment.  A journey leaves the store (for good, or for a fresh one at A)
\* exactly in a step that writes it as one completed journey.  So, as long
\* as only the loop has touched the store, id has a journey in progress
\* exactly when the last station message for id was not an H (looked at
\* after each step of the loop that changes the store or the Logs table).
C17_OneJourneyPerObservedBadge ==
    [][/\ Cardinality(Keys(ongoing')) = Len(ongoing')
       /\ \A id \in Keys(ongoing') \ Keys(ongoing) :
             \E station \in Stations \ {"H"} :
                /\ Took(StationMsg(station, id))
                /\ Get(ongoing', id) =
                      [DefaultRecord(current_session') EXCEPT ![station] = now']
       /\ \A id \in IDs :
             LET left == \/ id \in Keys(ongoing) \ Keys(ongoing')
                         \/ id \in Keys(ongoing) /\ Took(StationMsg("A", id))
             IN  /\ Cardinality(RowsWrittenFor(id)) =
                       IF left \/ Took(StationMsg("H", id)) THEN 1 ELSE 0
                 /\ left => \E k \in RowsWrittenFor(id) :
                               IsRowOf(BadgeScans'[k], id,
                                       IF Took(StationMsg("H", id))
                                       THEN [Get(ongoing, id) EXCEPT !.H = now']
                                       ELSE Get(ongoing, id))
       /\ (/\ pc' \in {"loop", "recv", "close"}
           /\ <<ongoing, Logs>>' # <<ongoing, Logs>>) =>
             \A id \in IDs :
                id \in Keys(ongoing') <=>
                    LastStationOf(Logs', id) \in Stations \ {"H"}]_vars

\* id1 walked to H and was written, and has a new journey under way that
\* began at B
C17_Witness ==
    /\ \E k \in 1..Len(BadgeScans) :
          BadgeScans[k].id = id1 /\ BadgeScans[k].h_time # NoTime
    /\ id1 \in Keys(ongoing)
    /\ Get(ongoing, id1).A = NoTime
    /\ Get(ongoing, id1).B # NoTime
    /\ pc = "recv"

\* --------------------------------------------------------------------- C18
IsPrefix(s, t) == Len(s) <= Len(t) /\ SubSeq(t, 1, Len(s)) = s

\* C18: every step leaves the rows that the Logs and BadgeScans tables held
\* where and as they were; a step can only add rows after them.
C18_TablesOnlyGrow ==
    [][IsPrefix(Logs, Logs') /\ IsPrefix(BadgeScans, BadgeScans')]_vars

\* id1 was written as a completed journey, and a note and a station message
\* for id1 came after that
C18_Witness ==
    /\ Len(Logs) = 3
    /\ Logs[1].message = StationMsg("H", id1)
    /\ Logs[2].message = NoteMsg
    /\ Logs[3].message = StationMsg("B", id1)
    /\ Len(BadgeScans) = 1
    /\ BadgeScans[1].id = id1
    /\ BadgeScans[1].notes = << >>
    /\ BadgeScans[1].b_time = NoTime

\* --------------------------------------------------------------------- C19
\* the texts joined by ', '
RECURSIVE Joined(_)
Joined(texts) ==
    IF texts = << >> THEN << >>
    ELSE IF Len(texts) = 1 THEN texts[1]
    ELSE texts[1] \o Separator \o Joined(Tail(texts))

\* the row of Logs at which the journey of id began that was in progress
\* after row m: the earliest station message for id with no H for id from
\* it up to m and no A for id after it up to m
BeganAt(logs, m, id) ==
    CHOOSE j \in 1..m :
        /\ Matches(logs[j].message) /\ MatchId(logs[j].message) = id
        /\ \A k \in j..(m - 1) : logs[k].message # StationMsg("H", id)
        /\ \A k \in (j + 1)..m : logs[k].message # StationMsg("A", id)
        /\ \A i \in 1..(j - 1) :
              ~ /\ Matches(logs[i].message) /\ MatchId(logs[i].message) = id
                /\ \A k \in i..(m - 1) : logs[k].message # StationMsg("H", id)
                /\ \A k \in (i + 1)..m : logs[k].message # StationMsg("A", id)

\* the stripped texts of the messages between rows lo and hi of logs that
\* are not station messages, in order
NotesBetween(logs, lo, hi) ==
    LET notes == SelectSeq(SubSeq(logs, lo, hi),
                           LAMBDA row : ~Matches(row.message))
    IN  [i \in 1..Len(notes) |-> Strip(notes[i].message)]

\* C19: the notes of a completed journey are the texts, stripped of the
\* whitespace around them, of the messages that were not station messages
\* and were processed while the journey was in progress, in the order they
\* came, joined by ', ': nothing after the last text, no text cut short,
\* and empty when there was none.
C19_NotesAreJoinedTexts ==
    [][\A k \in (Len(BadgeScans) + 1)..Len(BadgeScans') :
          LET id == BadgeScans'[k].id
              \* an A that restarts id writes the journey that row m ended
              m == IF \E data \in Datagrams :
                        Took(data) /\ data = StationMsg("A", id)
                   THEN Len(Logs) ELSE Len(Logs')
          IN  BadgeScans'[k].notes =
                  Joined(NotesBetween(Logs', BeganAt(Logs', m, id), m))]_vars

\* a journey was written with 'note text, note text' as its notes
C19_Witness ==
    \E k \in 1..Len(BadgeScans) :
        BadgeScans[k].notes = NoteText \o Separator \o NoteText

\* --------------------------------------------------------------------- C20
\* the row of Logs and the lines of the text logs that record the message
\* in hand under the session as it stands
RawEvent == [time |-> now, session |-> current_session,
             message |-> current_message]
RawLines == TextLines(GetTextLogFiles(None, current_session), now,
                      current_message)

\* C20: for each datagram the session is brought up to date first, then
\* the raw event is written, then the message is applied to the journeys.
\* When the raw event is written no change of session is still due for the
\* message, so a message that moves the session is recorded under the new
\* session, in the Logs row and in the name of the dated text log; and when
\* a journey is changed or written for a message, the Logs row and the text
\* lines of that message are already there.
C20_LoggedUnderNewSessionBeforeApplied ==
    [][/\ textLog' # textLog =>
             /\ ~SessionChanges(now, current_session, last_write)
             /\ textLog' = textLog \o RawLines
       /\ Logs' # Logs =>
             /\ ~SessionChanges(now, current_session, last_write)
             /\ Logs' = Append(Logs, RawEvent)
       /\ (store' # store /\ pc # "close") =>
             /\ Len(Logs) = Len(SelectSeq(received, Decodable))
             /\ Logs[Len(Logs)] = RawEvent
             /\ Len(textLog) >= Len(RawLines)
             /\ SubSeq(textLog, Len(textLog) - Len(RawLines) + 1, Len(textLog))
                   = RawLines]_vars

\* the second message came after midnight, moved the session, was recorded
\* under the new session and then opened a journey in that session
C20_Witness ==
    /\ pc = "loop"
    /\ Len(Logs) = 2
    /\ Logs[1].session = Date(StartTime)
    /\ Logs[2].session = Date(StartTime) + 1
    /\ Logs[2].message = StationMsg("A", id1)
    /\ textLog[Len(textLog)].file =
          <<"./data/udp_log_", FormatDate(Date(StartTime) + 1), ".txt">>
    /\ id1 \in Keys(ongoing)
    /\ Get(ongoing, id1).Session = Date(StartTime) + 1
    /\ Get(ongoing, id1).A = Logs[2].time

\* --------------------------------------------------------------------- C21
\* the journeys of id that the messages of logs have opened: one at each
\* station message for id that is an A, or the first for id, or the first
\* after an H for id
JourneysBegun(logs, id) ==
    LET IsFor(j) == Matches(logs[j].message) /\ MatchId(logs[j].message) = id
        Before(j) == {i \in 1..(j - 1) : IsFor(i)}
        Last(j) == CHOOSE i \in Before(j) : \A k \in Before(j) : k <= i
    IN  Cardinality({j \in 1..Len(logs) :
            /\ IsFor(j)
            /\ \/ MatchStation(logs[j].message) = "A"
               \/ Before(j) = {}
               \/ MatchStation(logs[Last(j)].message) = "H"})

\* C21: no journey is lost.  In every state, also after the store has
\* refused a write in finalize or in the drain at stop, each journey that
\* was opened for a badge id is either the one in progress for that id or
\* one of the completed journeys written for it.
C21_NoJourneyLost ==
    \A id \in IDs :
        JourneysBegun(Logs, id) =
            (IF id \in Keys(ongoing) THEN 1 ELSE 0)
            + Cardinality({k \in 1..Len(BadgeScans) : BadgeScans[k].id = id})

====
